---- MODULE Spec2Model ----
(***************************************************************************)
(* oat_create_areas (osm-area-tools): the two-pass run of main() and the   *)
(* OGR output handler OutputOGR, as a state machine.                       *)
(*                                                                         *)
(* One behaviour is one run of the program: the options are parsed (Init), *)
(* the database is opened (database branch), pass 1 reads the relations,   *)
(* pass 2 streams nodes and ways through the handler chain, and the run    *)
(* ends with the optional list of incomplete relations.  The input file is *)
(* revealed entity by entity as the readers deliver it.                    *)
(***************************************************************************)
EXTENDS Integers, Sequences, FiniteSets

\* Ways in the input file are numbered 1..MaxWay, relations 1..MaxRel and
\* nodes 1..MaxNode, in file order; Id64 gives the n-th entity its OSM id.
MaxWay == 2
MaxRel == 1
MaxNode == 1

Ways == 1..MaxWay
Rels == 1..MaxRel
Nodes == 1..MaxNode

----------------------------------------------------------------------------
(* 64-bit identifiers.  TLC's integers are 32 bits wide, so a 64-bit value *)
(* is kept as its two 32-bit words: hi (the upper word) and lo (the lower  *)
(* word read as a signed 32-bit integer, -2^31 .. 2^31-1).                 *)

MinInt32 == (0 - 2147483647) - 1

\* The n-th identifier of the input: 1, 2^31+1, 2^32+1, 2^32+2^31+1, ...
\* (stride 2^31, so that the samples differ in bit 31 and in the upper word).
Id64(n) ==
    [hi |-> (n - 1) \div 2,
     lo |-> IF (n - 1) % 2 = 1 THEN MinInt32 + 1 ELSE 1]

\* The low 31 bits of a signed 32-bit word, and its bit 31.
Low31(lo) == IF lo < 0 THEN (lo + 2147483647) + 1 ELSE lo
Bit31(lo) == IF lo < 0 THEN 1 ELSE 0

\* osmium::area::object_id_to_area_id for a positive id: 2*id for a way,
\* 2*id + 1 for a relation, computed on the two words with the carry.
object_id_to_area_id(id, from_way) ==
    LET f == IF from_way THEN 0 ELSE 1
        l == Low31(id.lo)
    IN  [hi |-> 2 * id.hi + Bit31(id.lo),
         lo |-> IF l >= 1073741824
                THEN ((2 * (l - 1073741824) + f) - 2147483647) - 1
                ELSE 2 * l + f]

\* static_cast<int32_t>(x) of a 64-bit x: the lower word, read as signed.
cast_int32(x) == x.lo

\* The Area the Assembler builds from way n (from_way) or relation n, and its
\* accessors area.orig_id() and area.id().
Area(from_way, n) == [from_way |-> from_way, n |-> n]
orig_id(a) == Id64(a.n)
area_id(a) == object_id_to_area_id(orig_id(a), a.from_way)

----------------------------------------------------------------------------
VARIABLES
    cfg,        \* the parsed options (main's locals after getopt_long)
    pc,         \* where main() is
    db,         \* the output database file, [before, now]: "unknown" while the run has
                \* not touched it, then "absent", "prior" (an earlier run's output) or "new"
    fatal,      \* "none", or which call threw out of main: "input", "output", "sink"
    output,     \* the OutputOGR handler: [constructed, m_check, m_only_invalid]
    reader1,    \* pass-1 reader: [state, mask]
    reader2,    \* pass-2 reader: [state, mask]
    chain,      \* the handlers osmium::apply runs per pass-2 entity, in order
    last_rel,   \* number of the last relation reader1 delivered
    pending,    \* collector: relation |-> [held, members, need]
    kept,       \* relation |-> the way members pass 1 recorded for it ({}: not kept)
    cursor,     \* last entity reader2 delivered: [kind, n]
    resolved,   \* ways whose node locations the location handler filled in
    seen_ways,  \* ways that have streamed past the collector in pass 2
    dispatched, \* relation |-> number of times it was handed to the Assembler
    emitted,    \* Areas the Assembler put into the output buffer, in order
    dumped,     \* Areas the dump handler wrote, in order
    offered,    \* calls of OutputOGR::area, in order: the Area and what the call
                \* did: [area, is_valid, added, raised, printed, thrown]
    layer,      \* features of the "areas" layer, in order
    printed,    \* Areas print_area_error reported on stderr, in order
    report      \* show_incomplete_relations: [shown, ids]

vars == <<cfg, pc, db, fatal, output, reader1, reader2, chain, last_rel, pending, kept, cursor,
          resolved, seen_ways, dispatched, emitted, dumped, offered,
          layer, printed, report>>

----------------------------------------------------------------------------
(* Option parsing: main(), the getopt_long loop.                           *)

\* The options the model draws from; "n" stands for "-i none".
OptionLetters == {"c", "C", "f", "D", "o", "O", "r", "n"}

\* The options that select the run mode, and those the output handler reads.
ModeLetters == {"C", "D", "o", "n"}
CheckLetters == {"c", "f"}

ParseOptions(opts) ==
    [check           |-> ("c" \in opts) \/ ("f" \in opts),
     collect_only    |-> "C" \in opts,
     only_invalid    |-> "f" \in opts,
     dump            |-> "D" \in opts,
     database        |-> "o" \in opts,
     overwrite       |-> "O" \in opts,
     show_incomplete |-> "r" \in opts,
     location_index_type |-> IF "n" \in opts THEN "none" ELSE "sparse_mmap_array"]

\* entity_bits() that asks for nodes whatever the index type.
entity_bits_with_nodes(location_index_type) == {"way", "node"}

\* entity_bits(): the type-mask of the pass-2 reader.
entity_bits(location_index_type) ==
    IF location_index_type = "none" THEN {"way"} ELSE {"way", "node"}

need_locations == cfg.location_index_type /= "none"

Unopened == [state |-> "unopened", mask |-> {}]

\* A close() that leaves the reader open.
close_noop(reader) == reader

\* reader.close()
close(reader) == [reader EXCEPT !.state = "closed"]

\* A relation the collector does not hold (never kept, or already completed).
NotHeld == [held |-> FALSE, members |-> {}, need |-> 0]

InitWith(optionSets) ==
    /\ cfg \in {ParseOptions(o) : o \in optionSets}
    /\ pc = "setup"
    /\ db = [before |-> "unknown", now |-> "unknown"]
    /\ fatal = "none"
    /\ output = [constructed |-> FALSE, m_check |-> FALSE, m_only_invalid |-> FALSE]
    /\ reader1 = Unopened
    /\ reader2 = Unopened
    /\ chain = <<>>
    /\ last_rel = 0
    /\ pending = [r \in Rels |-> NotHeld]
    /\ kept = [r \in Rels |-> {}]
    /\ cursor = [kind |-> "none", n |-> 0]
    /\ resolved = {}
    /\ seen_ways = {}
    /\ dispatched = [r \in Rels |-> 0]
    /\ emitted = <<>>
    /\ dumped = <<>>
    /\ offered = <<>>
    /\ layer = <<>>
    /\ printed = <<>>
    /\ report = [shown |-> FALSE, ids |-> {}]

----------------------------------------------------------------------------
(* Setup of the database branch: main(), "if (overwrite) unlink ..." up to *)
(* the construction of the collector.                                      *)

\* The database file is there (before = "prior") or not.
\* unlink(database_name) when -O was given; then the Dataset is created, which
\* either succeeds or throws (the exception leaves main).  Then OutputOGR is
\* constructed and configured with set_check / set_only_invalid.
OpenDatabase ==
    /\ pc = "setup"
    /\ ~cfg.collect_only
    /\ cfg.database
    /\ \E before \in {"absent", "prior"}, ok \in BOOLEAN :
         LET unlinked == IF cfg.overwrite THEN "absent" ELSE before
         IN  IF ok
             THEN /\ db' = [before |-> before,
                            now    |-> IF unlinked = "absent" THEN "new" ELSE unlinked]
                  /\ output' = [constructed    |-> TRUE,
                                m_check        |-> cfg.check,
                                m_only_invalid |-> cfg.only_invalid]
                  /\ pc' = "db_open"
                  /\ fatal' = fatal
             ELSE /\ db' = [before |-> before, now |-> unlinked]
                  /\ output' = output
                  /\ pc' = "aborted"
                  /\ fatal' = "output"
    /\ UNCHANGED <<cfg, reader1, reader2, chain, last_rel, pending, kept, cursor,
                   resolved, seen_ways, dispatched, emitted, dumped, offered,
                   layer, printed, report>>

----------------------------------------------------------------------------
(* Pass 1: read_relations(collector, input_file).                          *)

\* main() is about to call read_relations: at once in the collect-only and
\* no-database branches, after the database setup in the database branch.
BeforePass1 ==
    \/ pc = "setup" /\ (cfg.collect_only \/ ~cfg.database)
    \/ pc = "db_open"

\* osmium::io::Reader reader(file, osmium::osm_entity_bits::relation): opening
\* the input either succeeds or throws (the exception leaves main).
OpenReader1 ==
    /\ BeforePass1
    /\ \E ok \in BOOLEAN :
         IF ok
         THEN /\ reader1' = [state |-> "open", mask |-> {"relation"}]
              /\ pc' = "pass1"
              /\ fatal' = fatal
         ELSE /\ reader1' = reader1
              /\ pc' = "aborted"
              /\ fatal' = "input"
    /\ UNCHANGED <<cfg, db, output, reader2, chain, last_rel, pending, kept, cursor,
                   resolved, seen_ways, dispatched, emitted, dumped, offered,
                   layer, printed, report>>

\* The collector's relations after relation r was read in pass 1: r is held
\* when it matches the area predicate (keep) and has at least one way member,
\* and it needs all of them.
add_relation(pend, r, keep, members) ==
    IF keep /\ members /= {}
    THEN [pend EXCEPT ![r] = [held    |-> TRUE,
                              members |-> members,
                              need    |-> Cardinality(members)]]
    ELSE pend

\* collector.read_relations(reader), one relation: the reader delivers the next
\* relation r of the file; the collector keeps it when it matches the area
\* predicate (keep) and has at least one way member, with the number of members
\* it still needs.
ReadRelation ==
    /\ pc = "pass1"
    /\ "relation" \in reader1.mask
    /\ \E r \in Rels, keep \in BOOLEAN, members \in SUBSET Ways :
         /\ r > last_rel
         /\ last_rel' = r
         /\ pending' = add_relation(pending, r, keep, members)
         /\ kept' = [kept EXCEPT ![r] = add_relation(pending, r, keep, members)[r].members]
    /\ UNCHANGED <<cfg, pc, db, fatal, output, reader1, reader2, chain, cursor,
                   resolved, seen_ways, dispatched, emitted, dumped, offered,
                   layer, printed, report>>

\* The reader is exhausted: read_relations returns after reader.close().
ClosePass1 ==
    /\ pc = "pass1"
    /\ reader1' = close(reader1)
    /\ pc' = "pass1_done"
    /\ UNCHANGED <<cfg, db, fatal, output, reader2, chain, last_rel, pending, kept, cursor,
                   resolved, seen_ways, dispatched, emitted, dumped, offered,
                   layer, printed, report>>

----------------------------------------------------------------------------
(* The output handler: class OutputOGR.                                    *)

\* What the calls OutputOGR::area makes can answer for one Area:
\*   geom_ok  - create_multipolygon returns a geometry (FALSE: it throws
\*              osmium::geometry_error);
\*   IsValid  - the answer of geom->IsValid() (asked only when m_check);
\*   write_ok - add_to_layer succeeds (FALSE: it throws gdalcpp::gdal_error).
\* When create_multipolygon throws, the other two calls are not made and
\* their answers are not drawn.
Env ==
    {e \in [geom_ok : BOOLEAN, IsValid : BOOLEAN, write_ok : BOOLEAN] :
        ~e.geom_ok => (~e.IsValid /\ e.write_ok)}

\* The feature OutputOGR::area builds: the four fields of the "areas" layer.
Feature(a, is_valid) ==
    [id      |-> cast_int32(area_id(a)),
     valid   |-> is_valid,
     source  |-> IF a.from_way THEN "w" ELSE "r",
     orig_id |-> cast_int32(orig_id(a))]

\* OutputOGR::area without the early return of the only-invalid filter.
OutputOGR_area_unfiltered(out, a, env) ==
    IF ~env.geom_ok
    THEN [is_valid |-> FALSE, added |-> <<>>, raised |-> "geometry_error",
          printed |-> TRUE, thrown |-> FALSE]
    ELSE LET is_valid == IF out.m_check THEN env.IsValid ELSE FALSE
         IN  IF env.write_ok
             THEN [is_valid |-> is_valid, added |-> <<Feature(a, is_valid)>>,
                   raised |-> "none", printed |-> FALSE, thrown |-> FALSE]
             ELSE [is_valid |-> is_valid, added |-> <<>>, raised |-> "gdal_error",
                   printed |-> FALSE, thrown |-> TRUE]

\* OutputOGR::area that lets the geometry_error of create_multipolygon leave
\* the call (no catch clause).
OutputOGR_area_uncaught(out, a, env) ==
    IF ~env.geom_ok
    THEN [is_valid |-> FALSE, added |-> <<>>, raised |-> "geometry_error",
          printed |-> FALSE, thrown |-> TRUE]
    ELSE LET is_valid == IF out.m_check THEN env.IsValid ELSE FALSE
         IN  IF out.m_only_invalid /\ is_valid
             THEN [is_valid |-> is_valid, added |-> <<>>, raised |-> "none",
                   printed |-> FALSE, thrown |-> FALSE]
             ELSE IF env.write_ok
                  THEN [is_valid |-> is_valid, added |-> <<Feature(a, is_valid)>>,
                        raised |-> "none", printed |-> FALSE, thrown |-> FALSE]
                  ELSE [is_valid |-> is_valid, added |-> <<>>, raised |-> "gdal_error",
                        printed |-> FALSE, thrown |-> TRUE]

\* OutputOGR::area that asks geom->IsValid() whether or not m_check is set.
OutputOGR_area_always_checks(out, a, env) ==
    IF ~env.geom_ok
    THEN [is_valid |-> FALSE, added |-> <<>>, raised |-> "geometry_error",
          printed |-> TRUE, thrown |-> FALSE]
    ELSE LET is_valid == env.IsValid
         IN  IF out.m_only_invalid /\ is_valid
             THEN [is_valid |-> is_valid, added |-> <<>>, raised |-> "none",
                   printed |-> FALSE, thrown |-> FALSE]
             ELSE IF env.write_ok
                  THEN [is_valid |-> is_valid, added |-> <<Feature(a, is_valid)>>,
                        raised |-> "none", printed |-> FALSE, thrown |-> FALSE]
                  ELSE [is_valid |-> is_valid, added |-> <<>>, raised |-> "gdal_error",
                        printed |-> FALSE, thrown |-> TRUE]

\* OutputOGR::area(area): the result of one call on handler state out:
\*   is_valid - the local is_valid when the call ended;
\*   added    - the features the call added to the layer (none or one);
\*   raised   - the exception raised inside the call: "none", "geometry_error"
\*              (create_multipolygon) or "gdal_error" (add_to_layer);
\*   printed  - print_area_error ran (the catch clause for geometry_error);
\*   thrown   - the exception left the call (only geometry_error is caught).
OutputOGR_area(out, a, env) ==
    IF ~env.geom_ok
    THEN [is_valid |-> FALSE, added |-> <<>>, raised |-> "geometry_error",
          printed |-> TRUE, thrown |-> FALSE]
    ELSE LET is_valid == IF out.m_check THEN env.IsValid ELSE FALSE
         IN  IF out.m_only_invalid /\ is_valid
             THEN [is_valid |-> is_valid, added |-> <<>>, raised |-> "none",
                   printed |-> FALSE, thrown |-> FALSE]
             ELSE IF env.write_ok
                  THEN [is_valid |-> is_valid, added |-> <<Feature(a, is_valid)>>,
                        raised |-> "none", printed |-> FALSE, thrown |-> FALSE]
                  ELSE [is_valid |-> is_valid, added |-> <<>>, raised |-> "gdal_error",
                        printed |-> FALSE, thrown |-> TRUE]

\* The callback of the database branch on one buffer of Areas:
\* osmium::apply(buffer, dump_handler, output), or osmium::apply(buffer, output)
\* without a dump target.  Each Area goes to the dump handler, then to
\* OutputOGR::area; an exception ends the loop.  st = [dumped, offered, layer,
\* printed, thrown].
RECURSIVE apply_buffer(_, _, _, _, _, _)
apply_buffer(areas, envs, i, st, out, dump) ==
    IF i > Len(areas) \/ st.thrown
    THEN st
    ELSE LET a   == areas[i]
             res == OutputOGR_area(out, a, envs[i])
         IN  apply_buffer(areas, envs, i + 1,
                 [dumped  |-> IF dump THEN Append(st.dumped, a) ELSE st.dumped,
                  offered |-> Append(st.offered,
                                 [area |-> a, is_valid |-> res.is_valid,
                                  added |-> Len(res.added), raised |-> res.raised,
                                  printed |-> res.printed, thrown |-> res.thrown]),
                  layer   |-> st.layer \o res.added,
                  printed |-> IF res.printed THEN Append(st.printed, a) ELSE st.printed,
                  thrown  |-> res.thrown],
                 out, dump)

----------------------------------------------------------------------------
(* The collector's dependency tracking in pass 2                           *)
(* (osmium::area::MultipolygonCollector, used through collector.handler).  *)

\* The relations the collector holds that have way w as a member.
referencing(pend, w) == {r \in Rels : pend[r].held /\ w \in pend[r].members}

\* A collector that takes a relation for ready at its first member way.
ready_relations_early(pend, w) == referencing(pend, w)

\* Those of them for which w is the last member still needed.
ready_relations(pend, w) == {r \in referencing(pend, w) : pend[r].need - 1 = 0}

\* The collector's relations after way w: one member fewer is needed by each
\* referencing relation; a relation that needs none is released.
got_one_member(pend, w) ==
    [r \in Rels |->
        IF r \in ready_relations(pend, w) THEN NotHeld
        ELSE IF r \in referencing(pend, w)
             THEN [pend[r] EXCEPT !.need = pend[r].need - 1]
             ELSE pend[r]]

\* collector.get_incomplete_relations(): the relations still held.
get_incomplete_relations(pend) == {r \in Rels : pend[r].held}

\* The elements of a set of numbers in increasing order.
RECURSIVE Sorted(_)
Sorted(S) ==
    IF S = {} THEN <<>>
    ELSE LET m == CHOOSE x \in S : \A y \in S : x <= y
         IN  <<m>> \o Sorted(S \ {m})

\* The subsequence of seq at the positions in keep.
RECURSIVE Pick(_, _, _)
Pick(seq, keep, i) ==
    IF i > Len(seq) THEN <<>>
    ELSE (IF i \in keep THEN <<seq[i]>> ELSE <<>>) \o Pick(seq, keep, i + 1)

----------------------------------------------------------------------------
(* Pass 2: main(), from "Starting second pass" to the end of the run.      *)

\* osmium::io::Reader reader2(input_file, entity_bits(location_index_type)) and
\* the handler chain handed to osmium::apply: the location handler comes first
\* when need_locations, else the collector's handler stands alone.
OpenReader2 ==
    /\ pc = "pass1_done"
    /\ reader2' = [state |-> "open", mask |-> entity_bits(cfg.location_index_type)]
    /\ chain' = IF need_locations THEN <<"location_handler", "collector">>
                                  ELSE <<"collector">>
    /\ pc' = "pass2"
    /\ UNCHANGED <<cfg, db, fatal, output, reader1, last_rel, pending, kept, cursor,
                   resolved, seen_ways, dispatched, emitted, dumped, offered,
                   layer, printed, report>>

InChain(h) == \E k \in 1..Len(chain) : chain[k] = h

\* reader2 delivers the next node n (nodes come before the ways): the location
\* handler stores its location in the index (whose content is not modelled);
\* the collector's handler ignores nodes.
Pass2Node ==
    /\ pc = "pass2"
    /\ "node" \in reader2.mask
    /\ cursor.kind /= "way"
    /\ \E n \in Nodes :
         /\ n > cursor.n
         /\ cursor' = [kind |-> "node", n |-> n]
    /\ UNCHANGED <<cfg, pc, db, fatal, output, reader1, reader2, chain, last_rel, pending, kept,
                   resolved, seen_ways, dispatched, emitted, dumped, offered,
                   layer, printed, report>>

\* reader2 delivers the next way w.  The location handler (when in the chain)
\* fills in its node locations; the collector counts it for the relations that
\* reference it and hands every relation it completes to the Assembler, and
\* the way itself when it is an area candidate; the Areas the Assembler makes
\* go through the branch's callback.
Pass2Way ==
    /\ pc = "pass2"
    /\ "way" \in reader2.mask
    /\ \E w \in Ways :
         /\ w > (IF cursor.kind = "way" THEN cursor.n ELSE 0)
         /\ cursor' = [kind |-> "way", n |-> w]
         /\ resolved' = IF InChain("location_handler") THEN resolved \cup {w} ELSE resolved
         /\ seen_ways' = seen_ways \cup {w}
         /\ LET ready == ready_relations(pending, w)
                rseq  == Sorted(ready)
                cands == [k \in 1..Len(rseq) |-> Area(FALSE, rseq[k])] \o <<Area(TRUE, w)>>
            IN  /\ pending' = got_one_member(pending, w)
                /\ dispatched' = [r \in Rels |->
                                     IF r \in ready THEN dispatched[r] + 1 ELSE dispatched[r]]
                /\ \E keep \in SUBSET (1..Len(cands)) :
                     LET areas == IF cfg.collect_only THEN <<>> ELSE Pick(cands, keep, 1)
                     IN  /\ cfg.collect_only => keep = {}
                         /\ emitted' = emitted \o areas
                         /\ IF ~cfg.collect_only /\ cfg.database
                            THEN \E envs \in [1..Len(areas) -> Env] :
                                   LET st == apply_buffer(areas, envs, 1,
                                                 [dumped |-> dumped, offered |-> offered,
                                                  layer |-> layer, printed |-> printed,
                                                  thrown |-> FALSE],
                                                 output, cfg.dump)
                                   IN  /\ dumped' = st.dumped
                                       /\ offered' = st.offered
                                       /\ layer' = st.layer
                                       /\ printed' = st.printed
                                       /\ pc' = IF st.thrown THEN "aborted" ELSE pc
                                       /\ fatal' = IF st.thrown THEN "sink" ELSE fatal
                            ELSE UNCHANGED <<dumped, offered, layer, printed, pc, fatal>>
    /\ UNCHANGED <<cfg, db, output, reader1, reader2, chain, last_rel, kept, report>>

\* show_incomplete_relations(collector): the ids of the relations still held.
show_incomplete_relations(pend) ==
    LET ids == {Id64(r) : r \in get_incomplete_relations(pend)}
    IN  [shown |-> ids /= {}, ids |-> ids]

\* reader2 is exhausted: reader2.close(), the statistics, and in the branches
\* with a real Assembler the list of incomplete relations if -r was given.
FinishRun ==
    /\ pc = "pass2"
    /\ reader2' = close(reader2)
    /\ report' = IF ~cfg.collect_only /\ cfg.show_incomplete
                 THEN show_incomplete_relations(pending)
                 ELSE report
    /\ pc' = "done"
    /\ UNCHANGED <<cfg, db, fatal, output, reader1, chain, last_rel, pending, kept, cursor,
                   resolved, seen_ways, dispatched, emitted, dumped, offered,
                   layer, printed>>

----------------------------------------------------------------------------
Next ==
    \/ OpenDatabase
    \/ OpenReader1
    \/ ReadRelation
    \/ ClosePass1
    \/ OpenReader2
    \/ Pass2Node
    \/ Pass2Way
    \/ FinishRun

\* Every run.
Init == InitWith(SUBSET OptionLetters)
Spec == Init /\ [][Next]_vars

\* The runs in every mode (collect-only, no database, database; with and
\* without dump, overwrite, show-incomplete, locations), without checking.
InitModes == InitWith(SUBSET ModeLetters)
SpecModes == InitModes /\ [][Next]_vars

\* The runs of the database branch with every setting the output handler
\* reads (check, only-invalid, dump).
InitCheck == InitWith({o \cup {"o"} : o \in SUBSET CheckLetters})
SpecCheck == InitCheck /\ [][Next]_vars

----------------------------------------------------------------------------
(* Properties.                                                             *)

\* The run is in the database branch (the only one with an output handler).
DatabaseBranch == ~cfg.collect_only /\ cfg.database

\* The Areas handed to OutputOGR::area so far, in order.
OfferedAreas == [k \in 1..Len(offered) |-> offered[k].area]

\* C1: with -f (only_invalid) every feature added to the "areas" layer has
\* valid = FALSE, and no call of OutputOGR::area whose validity check returned
\* true added a feature.
C1_OnlyInvalidLayer ==
    cfg.only_invalid =>
        /\ \A k \in 1..Len(layer) : layer[k].valid = FALSE
        /\ \A k \in 1..Len(offered) : offered[k].is_valid => offered[k].added = 0

\* A run with -f in which a valid Area was filtered and an invalid one written.
C1_Witness ==
    /\ cfg.only_invalid
    /\ Len(layer) >= 1
    /\ \E k \in 1..Len(offered) : offered[k].is_valid

\* The relations pass 1 kept of which some member way has not streamed past.
Incomplete == {r \in Rels : kept[r] /= {} /\ ~(kept[r] \subseteq seen_ways)}

\* C2: a relation kept in pass 1 (N >= 1 way members) is handed to the
\* Assembler at most once, never while a member way has not yet streamed past,
\* and exactly once as soon as all its N member ways have streamed past (the
\* way stream delivers each way id once).
C2_DispatchedOnceWhenComplete ==
    \A r \in Rels :
        /\ dispatched[r] <= 1
        /\ dispatched[r] >= 1 => (kept[r] /= {} /\ kept[r] \subseteq seen_ways)
        /\ (kept[r] /= {} /\ kept[r] \subseteq seen_ways) => dispatched[r] = 1

\* A relation with two member ways has been dispatched.
C2_Witness ==
    \E r \in Rels : dispatched[r] = 1 /\ Cardinality(kept[r]) >= 2

\* The Areas of the calls that added a feature, in the order of the layer.
IsAdded(call) == call.added = 1
WrittenCalls == SelectSeq(offered, IsAdded)

\* C3 as stated: two features written from different source entities differ
\* in their id field and in their (source, orig_id) pair.
C3_UniqueIds ==
    \A i, j \in 1..Len(layer) :
        WrittenCalls[i].area /= WrittenCalls[j].area =>
            /\ layer[i].id /= layer[j].id
            /\ <<layer[i].source, layer[i].orig_id>> /= <<layer[j].source, layer[j].orig_id>>

\* C4 as stated: a write error inside OutputOGR::area is reported for that
\* Area and neither leaves the call nor stops the run.
C4_WriteFailureReported ==
    \A k \in 1..Len(offered) :
        offered[k].raised = "gdal_error" =>
            /\ offered[k].printed
            /\ ~offered[k].thrown
            /\ fatal = "none"

\* C5 as stated: at the end of the run no incomplete relation was assembled,
\* and with -r the report lists exactly the incomplete relations, in every
\* run mode.
C5_IncompleteListed ==
    pc = "done" =>
        /\ \A r \in Incomplete : dispatched[r] = 0
        /\ cfg.show_incomplete => report.ids = {Id64(r) : r \in Incomplete}

\* C6 as stated: at the end of the run every emitted Area was dumped once if
\* a dump target is configured, and offered to OutputOGR once if a database
\* is configured.
C6_EachSinkConsumesOnce ==
    pc = "done" =>
        /\ cfg.dump => dumped = emitted
        /\ cfg.database => OfferedAreas = emitted

\* C7: once the pass-2 reader is open: with index type "none" its mask is
\* ways only, the location handler is not in the chain and no way was
\* resolved; with any other index type the mask is ways and nodes, the
\* location handler runs before the collector, and every way the collector
\* saw was resolved.
C7_LocationsAndMask ==
    reader2.state /= "unopened" =>
        IF cfg.location_index_type = "none"
        THEN /\ reader2.mask = {"way"}
             /\ ~InChain("location_handler")
             /\ resolved = {}
        ELSE /\ reader2.mask = {"way", "node"}
             /\ chain = <<"location_handler", "collector">>
             /\ resolved = seen_ways

\* A finished run without locations in which ways streamed past.
C7_Witness ==
    /\ cfg.location_index_type = "none"
    /\ pc = "done"
    /\ seen_ways /= {}

\* C8 as stated: a fatal setup error occurs before pass 1 has begun, and when
\* opening the input fails the run has neither destroyed nor created output.
C8_SetupErrorsBeforePass1 ==
    /\ fatal \in {"input", "output"} => (reader1.state = "unopened" /\ last_rel = 0)
    /\ fatal = "input" => db.now = db.before

\* C9: pass 1 reads with the relation-only mask; its reader is closed before
\* the pass-2 reader is opened; pass 2 does not ask for relations; and once
\* the pass-2 reader is open no relation is read and the member lists pass 1
\* recorded do not change.
C9_Sequential ==
    /\ [](/\ reader1.state /= "unopened" => reader1.mask = {"relation"}
          /\ reader2.state /= "unopened" =>
                (reader1.state = "closed" /\ "relation" \notin reader2.mask))
    /\ [][reader2.state /= "unopened" => (kept' = kept /\ last_rel' = last_rel)]_vars

\* Pass 2 is running after a pass 1 that kept a relation.
C9_Witness ==
    /\ pc = "pass2"
    /\ seen_ways /= {}
    /\ \E r \in Rels : kept[r] /= {}

\* C10: a call of OutputOGR::area in which create_multipolygon raises a
\* geometry error adds no feature and lets no exception out, and as long as
\* no exception left the handler every emitted Area has been handed to it.
C10_GeometryErrorSkipped ==
    /\ \A k \in 1..Len(offered) :
          offered[k].raised = "geometry_error" =>
              (offered[k].added = 0 /\ ~offered[k].thrown)
    /\ (DatabaseBranch /\ fatal = "none") => OfferedAreas = emitted

\* An Area was written to the layer after an earlier one had a geometry error.
C10_Witness ==
    \E k \in 1..Len(offered) :
        /\ offered[k].raised = "geometry_error"
        /\ \E j \in (k + 1)..Len(offered) : offered[j].added = 1

\* C11: a feature of the "areas" layer carries the is_valid of the call that
\* wrote it, and valid = TRUE only in a run with checking enabled; without
\* checking every feature has valid = FALSE and no call that built its
\* geometry returned without handing the feature to add_to_layer (none is
\* filtered; the feature is in the layer unless add_to_layer itself failed).
C11_ValidOnlyWhenChecked ==
    /\ Len(layer) = Len(WrittenCalls)
    /\ \A k \in 1..Len(layer) :
          /\ k <= Len(WrittenCalls) => layer[k].valid = WrittenCalls[k].is_valid
          /\ layer[k].valid => cfg.check
    /\ ~cfg.check =>
          /\ \A k \in 1..Len(layer) : layer[k].valid = FALSE
          /\ \A k \in 1..Len(offered) :
                offered[k].raised /= "geometry_error" =>
                    (offered[k].added = 1 \/ offered[k].raised = "gdal_error")

\* A run without checking has written two features.
C11_Witness ==
    /\ ~cfg.check
    /\ Len(layer) >= 2

\* A run with checking has written a feature with valid = TRUE.
ValidFeatureWritten ==
    /\ cfg.check
    /\ \E k \in 1..Len(layer) : layer[k].valid

====
